---- MODULE Spec2Model ----
(***************************************************************************)
(* A model of the decimal.js source transform of src/loader.ts: the strict *)
(* classifier ensureFixedPoint, the two rewriters, the tree walker         *)
(* decimalify, the import check sourceFileHasDecimalJS and the two entry   *)
(* points (the text loader and the compiler host's getSourceFile).         *)
(*                                                                         *)
(* Syntax-tree nodes are objects with identity: the heap is a sequence of  *)
(* node records and a node is its index in it; 0 is undefined. A node      *)
(* record has the fields the transform reads or writes:                    *)
(*   kind   the ts.SyntaxKind name                                         *)
(*   text   NumericLiteral/StringLiteral text, Identifier escapedText,     *)
(*          BinaryExpression operator token                                *)
(*   left   BinaryExpression.left, Call/New/PropertyAccess .expression,    *)
(*          PrefixUnary.operand, Parenthesized/ExpressionStatement         *)
(*          .expression, VariableDeclaration.name, ImportDeclaration       *)
(*          .importClause, ImportClause/ImportSpecifier .name              *)
(*   right  BinaryExpression.right, PropertyAccess.name,                   *)
(*          VariableDeclaration.initializer, ImportDeclaration             *)
(*          .moduleSpecifier, ImportClause.namedBindings                   *)
(*   list   Call/New .arguments, SourceFile.statements,                    *)
(*          NamedImports.elements                                          *)
(* VariableStatement and VariableDeclarationList, which only wrap a        *)
(* VariableDeclaration and are neither rewritten nor written to, are left  *)
(* out: a VariableDeclaration stands directly among the statements. So are *)
(* the children the walker passes without an effect: operator tokens, type *)
(* annotations and type arguments.                                         *)
(***************************************************************************)
EXTENDS Integers, Sequences, FiniteSets

VARIABLES
  heap,   \* the node store
  file,   \* the SourceFile node the host holds
  expr,   \* the expression of the last statement of the parsed file
  src,    \* the heap and file as parsed (never changes after Init)
  pc,     \* which operation ran last
  res     \* what that operation returned or threw

vars == <<heap, file, expr, src, pc, res>>

-----------------------------------------------------------------------------
(* Bounds of the inputs                                                    *)

\* arithmetic operators in one generated arithmetic expression
MaxOps == 2
\* arguments of one generated call
MaxArgs == 2
\* import declarations at the head of a generated file
MaxImports == 2

-----------------------------------------------------------------------------
(* Source trees, as the parser's input: nested records                     *)

Nil == [kind |-> "none"]

Tree(kind, text, left, right, list) ==
  [kind |-> kind, text |-> text, left |-> left, right |-> right, list |-> list]

NumT(v) == Tree("NumericLiteral", v, Nil, Nil, <<>>)
StrT(v) == Tree("StringLiteral", v, Nil, Nil, <<>>)
IdT(name) == Tree("Identifier", name, Nil, Nil, <<>>)
BinT(op, l, r) == Tree("BinaryExpression", op, l, r, <<>>)
CallT(callee, args) == Tree("CallExpression", "", callee, Nil, args)
AccessT(e, name) == Tree("PropertyAccessExpression", "", e, IdT(name), <<>>)
UnaryT(e) == Tree("PrefixUnaryExpression", "-", e, Nil, <<>>)
ParenT(e) == Tree("ParenthesizedExpression", "", e, Nil, <<>>)
VarDeclT(name, init) == Tree("VariableDeclaration", "", IdT(name), init, <<>>)
ExprStmtT(e) == Tree("ExpressionStatement", "", e, Nil, <<>>)
ImportClauseT(name, bindings) == Tree("ImportClause", "", name, bindings, <<>>)
NamedImportsT(name) ==
  Tree("NamedImports", "", Nil, Nil, <<Tree("ImportSpecifier", "", IdT(name), Nil, <<>>)>>)
ImportT(clause, module) == Tree("ImportDeclaration", "", clause, StrT(module), <<>>)
SourceFileT(statements) == Tree("SourceFile", "", Nil, Nil, statements)

-----------------------------------------------------------------------------
(* The node store                                                          *)

Node(kind, text, left, right, list) ==
  [kind |-> kind, text |-> text, left |-> left, right |-> right, list |-> list]

\* the parser: every node of the source tree becomes an object of its own.
\* A subtree's nodes are created one after the other, the children before
\* their parent: the subtree's root is the last of them.
RECURSIVE Size(_), SizeAll(_), parseNode(_, _), parseNodes(_, _), Roots(_, _)
Size(t) ==
  IF t.kind = "none" THEN 0 ELSE Size(t.left) + Size(t.right) + SizeAll(t.list) + 1
SizeAll(ts) == IF Len(ts) = 0 THEN 0 ELSE Size(Head(ts)) + SizeAll(Tail(ts))

\* the root of subtree t created after `base` nodes (0 for no subtree)
Root(t, base) == IF t.kind = "none" THEN 0 ELSE base + Size(t)
Roots(ts, base) ==
  IF Len(ts) = 0 THEN <<>>
  ELSE <<Root(Head(ts), base)>> \o Roots(Tail(ts), base + Size(Head(ts)))

parseNode(t, base) ==
  IF t.kind = "none" THEN <<>>
  ELSE parseNode(t.left, base)
         \o parseNode(t.right, base + Size(t.left))
         \o parseNodes(t.list, base + Size(t.left) + Size(t.right))
         \o <<Node(t.kind, t.text,
                   Root(t.left, base),
                   Root(t.right, base + Size(t.left)),
                   Roots(t.list, base + Size(t.left) + Size(t.right)))>>
parseNodes(ts, base) ==
  IF Len(ts) = 0 THEN <<>>
  ELSE parseNode(Head(ts), base) \o parseNodes(Tail(ts), base + Size(Head(ts)))

createSourceFile(t) == [h |-> parseNode(t, 0), r |-> Size(t)]

\* the tree under node n, by structure alone (what the printer serialises)
RECURSIVE printFile(_, _)
printFile(h, n) ==
  IF n = 0 THEN Nil
  ELSE Tree(h[n].kind, h[n].text, printFile(h, h[n].left), printFile(h, h[n].right),
            [i \in 1..Len(h[n].list) |-> printFile(h, h[n].list[i])])

-----------------------------------------------------------------------------
(* Results of the classifier and the rewriters: the node returned, or the  *)
(* error thrown; h is the store with the nodes the call created.           *)

Return(h, n) == [h |-> h, r |-> n, ok |-> TRUE, err |-> ""]
Throw(h, kind) == [h |-> h, r |-> 0, ok |-> FALSE, err |-> kind]

\* the switch on operatorToken.kind; "" is its default branch
Operator(op) ==
  CASE op = "/" -> "div"
    [] op = "*" -> "times"
    [] op = "+" -> "plus"
    [] op = "-" -> "minus"
    [] OTHER -> ""

Undefined == "<undefined>"

\* TRIG_FUNCTIONS[method]: a property read of an object literal, which also
\* finds what the literal inherits from Object.prototype
TRIG_FUNCTIONS(method) ==
  IF method \in {"sin", "cos", "tan"} THEN method
  ELSE CASE method = "constructor" -> "<function Object>"
         [] method = "toString" -> "<function toString>"
         [] method = "valueOf" -> "<function valueOf>"
         [] method = "hasOwnProperty" -> "<function hasOwnProperty>"
         [] OTHER -> Undefined

RECURSIVE ensureFixedPoint(_, _), rewriteBinaryExpression(_, _)

\* Decimal.<decimalMethod>(arguments)
createStaticCall(h, decimalMethod, arguments) ==
  Return(h \o <<Node("Identifier", "Decimal", 0, 0, <<>>),
                Node("Identifier", decimalMethod, 0, 0, <<>>),
                Node("PropertyAccessExpression", "", Len(h) + 1, Len(h) + 2, <<>>),
                Node("CallExpression", "", Len(h) + 3, 0, arguments)>>,
         Len(h) + 4)

\* the Identifier's escapedText, or undefined
IdentifierText(h, n) == IF h[n].kind = "Identifier" THEN h[n].text ELSE Undefined

\* a rewriter that takes any namespace for Math
rewriteCallExpressionAnyNamespace(h, n) ==
  IF h[h[n].left].kind # "PropertyAccessExpression" THEN Return(h, n)
  ELSE IF IdentifierText(h, h[h[n].left].left) = Undefined THEN Return(h, n)
  ELSE IF TRIG_FUNCTIONS(IdentifierText(h, h[h[n].left].right)) # Undefined
    THEN createStaticCall(h, TRIG_FUNCTIONS(IdentifierText(h, h[h[n].left].right)),
                          h[n].list)
  ELSE Return(h, n)
rewriteCallExpression(h, n) ==
  IF h[h[n].left].kind # "PropertyAccessExpression" THEN Return(h, n)
  ELSE IF IdentifierText(h, h[h[n].left].left) # "Math" THEN Return(h, n)
  ELSE IF TRIG_FUNCTIONS(IdentifierText(h, h[h[n].left].right)) # Undefined
    THEN createStaticCall(h, TRIG_FUNCTIONS(IdentifierText(h, h[h[n].left].right)),
                          h[n].list)
  ELSE Return(h, n)

\* a classifier without its throw
ensureFixedPointLenient(h, n) ==
  IF h[n].kind = "BinaryExpression" THEN rewriteBinaryExpression(h, n)
  ELSE IF h[n].kind = "CallExpression" THEN rewriteCallExpression(h, n)
  ELSE Return(h, n)
ensureFixedPoint(h, n) ==
  IF h[n].kind = "NumericLiteral" THEN Return(h, n)
  ELSE IF h[n].kind = "BinaryExpression" THEN rewriteBinaryExpression(h, n)
  ELSE IF h[n].kind = "CallExpression" THEN rewriteCallExpression(h, n)
  ELSE Throw(h, h[n].kind)

\* new Decimal(left).<operator>(right)
createMethodCall(h, operator, left, right) ==
  Return(h \o <<Node("Identifier", "Decimal", 0, 0, <<>>),
                Node("NewExpression", "", Len(h) + 1, 0, <<left>>),
                Node("Identifier", operator, 0, 0, <<>>),
                Node("PropertyAccessExpression", "", Len(h) + 2, Len(h) + 3, <<>>),
                Node("CallExpression", "", Len(h) + 4, 0, <<right>>)>>,
         Len(h) + 5)

\* after the right operand is classified
withRight(operator, left, right) ==
  IF ~right.ok THEN right ELSE createMethodCall(right.h, operator, left, right.r)

\* after the left operand is classified
withLeft(h, n, operator, left) ==
  IF ~left.ok THEN left
  ELSE withRight(operator, left.r, ensureFixedPoint(left.h, h[n].right))

\* a rewriter that places the operands as they are
rewriteBinaryExpressionUnclassified(h, n) ==
  IF Operator(h[n].text) = "" THEN Return(h, n)
  ELSE createMethodCall(h, Operator(h[n].text), h[n].left, h[n].right)
rewriteBinaryExpression(h, n) ==
  IF Operator(h[n].text) = "" THEN Return(h, n)
  ELSE withLeft(h, n, Operator(h[n].text), ensureFixedPoint(h, h[n].left))

-----------------------------------------------------------------------------
(* The walker. Its state: the store, whether an error is propagating (and  *)
(* from which node's rewrite), and a record of what it did: its calls of   *)
(* decimalifyChild (node and nodeParent), the nodes it computed a rewrite  *)
(* for, and its writes of a rewrite into a parent (with what the slot held *)
(* before).                                                                *)

Walker(h) ==
  [h |-> h, ok |-> TRUE, err |-> "", at |-> 0, visited |-> {}, rewrote |-> {},
   writes |-> {}]

RECURSIVE decimalifyChild(_, _, _), visitNodes(_, _, _)

\* ts.forEachChild: each child slot is read when its turn comes; a node list
\* is walked as the array it was when its turn came
visitLeft(w, n) ==
  IF w.h[n].left # 0 THEN decimalifyChild(w, w.h[n].left, n) ELSE w
visitRight(w, n) ==
  IF w.ok /\ w.h[n].right # 0 THEN decimalifyChild(w, w.h[n].right, n) ELSE w
visitList(w, n) ==
  IF w.ok THEN visitNodes(w, w.h[n].list, n) ELSE w
forEachChild(w, n) == visitList(visitRight(visitLeft(w, n), n), n)

visitNodes(w, nodes, parent) ==
  IF Len(nodes) = 0 \/ ~w.ok THEN w
  ELSE visitNodes(decimalifyChild(w, Head(nodes), parent), Tail(nodes), parent)

\* the first switch of decimalifyChild: expression, or 0 when it stays undefined
rewriteNode(h, node, nodeParent) ==
  IF nodeParent # 0 /\ h[node].kind = "BinaryExpression"
    THEN rewriteBinaryExpression(h, node)
  ELSE IF nodeParent # 0 /\ h[node].kind = "CallExpression"
    THEN rewriteCallExpression(h, node)
  ELSE Return(h, 0)

\* the second switch: the slot of nodeParent that takes the rewrite
ParentSlot(h, node, nodeParent, expression) ==
  IF expression = 0 \/ expression = node THEN "none"
  ELSE IF h[nodeParent].kind = "VariableDeclaration" THEN "initializer"
  ELSE IF h[nodeParent].kind = "CallExpression" THEN "arguments"
  ELSE "none"

attach(h, nodeParent, expression, slot) ==
  IF slot = "initializer" THEN [h EXCEPT ![nodeParent].right = expression]
  ELSE IF slot = "arguments" THEN [h EXCEPT ![nodeParent].list = <<expression>>]
  ELSE h

\* what a slot of a node holds, as a list
Held(h, n, slot) == IF slot = "initializer" THEN <<h[n].right>> ELSE h[n].list

attached(w, node, nodeParent, h, expression, slot) ==
  [w EXCEPT
     !.h = attach(h, nodeParent, expression, slot),
     !.visited = @ \cup {[node |-> node, parent |-> nodeParent]},
     !.rewrote = IF expression # 0 /\ expression # node THEN @ \cup {node} ELSE @,
     !.writes = IF slot # "none"
                THEN @ \cup {[parent |-> nodeParent, node |-> node, value |-> expression,
                               slot |-> slot, held |-> Held(h, nodeParent, slot)]}
                ELSE @]

\* a walker that catches the classifier's error and goes on
descendCatching(w, node, nodeParent, rewrite) ==
  IF ~rewrite.ok
  THEN forEachChild(attached(w, node, nodeParent, w.h, 0, "none"), node)
  ELSE forEachChild(
         attached(w, node, nodeParent, rewrite.h, rewrite.r,
                  ParentSlot(rewrite.h, node, nodeParent, rewrite.r)),
         IF rewrite.r # 0 THEN rewrite.r ELSE node)
descend(w, node, nodeParent, rewrite) ==
  IF ~rewrite.ok
  THEN [w EXCEPT !.h = rewrite.h, !.ok = FALSE, !.err = rewrite.err, !.at = node,
                 !.visited = @ \cup {[node |-> node, parent |-> nodeParent]}]
  ELSE forEachChild(
         attached(w, node, nodeParent, rewrite.h, rewrite.r,
                  ParentSlot(rewrite.h, node, nodeParent, rewrite.r)),
         IF rewrite.r # 0 THEN rewrite.r ELSE node)

decimalifyChild(w, node, nodeParent) ==
  descend(w, node, nodeParent, rewriteNode(w.h, node, nodeParent))

decimalify(h, sourceFile) == decimalifyChild(Walker(h), sourceFile, 0)

-----------------------------------------------------------------------------
(* The import check and the two entry points                               *)

sourceFileHasDecimalJS(h, sourceFile) ==
  \E i \in 1..Len(h[sourceFile].list) :
    LET node == h[h[sourceFile].list[i]] IN
    /\ node.kind = "ImportDeclaration"
    /\ h[node.right].kind = "StringLiteral"
    /\ h[node.right].text = "decimal.js"
    /\ node.left # 0
    /\ h[node.left].kind = "ImportClause"
    /\ h[node.left].left # 0
    /\ h[h[node.left].left].kind = "Identifier"
    /\ h[h[node.left].left].text = "Decimal"

\* lines 143-153 of the loader: the file with the import it may lack
ensureImport(h, sourceFile) ==
  IF sourceFileHasDecimalJS(h, sourceFile) THEN [h |-> h, r |-> sourceFile]
  ELSE [h |-> h \o <<Node("Identifier", "Decimal", 0, 0, <<>>),
                     Node("ImportClause", "", Len(h) + 1, 0, <<>>),
                     Node("StringLiteral", "decimal.js", 0, 0, <<>>),
                     Node("ImportDeclaration", "", Len(h) + 2, Len(h) + 3, <<>>),
                     Node("SourceFile", "", 0, 0, <<Len(h) + 4>> \o h[sourceFile].list)>>,
        r |-> Len(h) + 5]

\* what an entry point leaves: the store, the file it walked, the walker's
\* record, and the value handed back (Nil when the call threw)
Outcome(w, sourceFile) ==
  [h |-> w.h, file |-> sourceFile, threw |-> ~w.ok, err |-> w.err, at |-> w.at,
   visited |-> w.visited, rewrote |-> w.rewrote, writes |-> w.writes,
   value |-> IF w.ok THEN printFile(w.h, sourceFile) ELSE Nil]

\* decimalify(sourceFile), then printer.printFile(sourceFile)
decimalifyAndPrint(imported) == Outcome(decimalify(imported.h, imported.r), imported.r)

loader(h, sourceFile) == decimalifyAndPrint(ensureImport(h, sourceFile))

getSourceFile(h, sourceFile) == Outcome(decimalify(h, sourceFile), sourceFile)

-----------------------------------------------------------------------------
(* The source files the model is run on: the trees the parser yields for  *)
(* source texts. An operand that the text has to write in parentheses is a *)
(* ParenthesizedExpression node around the operand.                        *)

Literals == {NumT("1"), NumT("2")}
Atoms == Literals \cup {IdT("x")}
ArithmeticOperators == {"+", "-", "*", "/"}

\* how tightly a binary operator binds
Precedence(op) ==
  CASE op = "<" -> 1
    [] op \in {"+", "-"} -> 2
    [] op \in {"*", "/"} -> 3
    [] op = "**" -> 4

\* the operands of the left-associative operator op and of a prefix operator,
\* as the parser yields them
LeftOperand(op, e) ==
  IF e.kind = "BinaryExpression" /\ Precedence(e.text) < Precedence(op)
  THEN ParenT(e) ELSE e
RightOperand(op, e) ==
  IF e.kind = "BinaryExpression" /\ Precedence(e.text) <= Precedence(op)
  THEN ParenT(e) ELSE e
UnaryOperand(e) == IF e.kind = "BinaryExpression" THEN ParenT(e) ELSE e

\* the expressions of literals and at most k arithmetic operators, nested
\* on either side
RECURSIVE Arithmetic(_)
Arithmetic(k) ==
  IF k = 0 THEN Literals
  ELSE Literals \cup
       {BinT(op, LeftOperand(op, p[1]), RightOperand(op, p[2])) :
          op \in ArithmeticOperators,
          p \in UNION {Arithmetic(i) \X Arithmetic(k - 1 - i) : i \in 0..(k - 1)}}

Lists(S, n) == UNION {[1..k -> S] : k \in 0..n}
\* the argument lists of 1..n arguments: e once, the literal 1 elsewhere
Around(e, n) ==
  UNION {{[i \in 1..k |-> IF i = j THEN e ELSE NumT("1")] : j \in 1..k} : k \in 1..n}

MathCallees == {AccessT(IdT("Math"), m) : m \in {"sin", "cos", "tan", "log", "toString"}}
Callees ==
  {IdT("f"), AccessT(IdT("Num"), "sin"), AccessT(AccessT(IdT("a"), "Math"), "sin")}
    \cup MathCallees

\* one operator, call or wrapper over atoms
Binary1 == {BinT(op, a, b) : op \in {"+", "<"}, a \in Atoms, b \in Atoms}
Calls1 == {CallT(c, args) : c \in Callees, args \in Lists({NumT("1"), IdT("x")}, MaxArgs)}
Wrapped1 == {UnaryT(a) : a \in Atoms} \cup {ParenT(a) : a \in Atoms}
Level1 == Binary1 \cup Calls1 \cup Wrapped1

\* one more level around a Level1 expression
Binary2 ==
  {BinT(op, LeftOperand(op, e), NumT("2")) : op \in {"+", "<"}, e \in Level1}
    \cup {BinT(op, NumT("2"), RightOperand(op, e)) : op \in {"+", "<"}, e \in Level1}
    \cup {BinT("+", BinT("**", NumT("1"), a), NumT("2")) : a \in Atoms}
Calls2 ==
  {CallT(c, args) :
     c \in {IdT("f"), AccessT(IdT("Math"), "sin")},
     args \in UNION {Around(e, MaxArgs) : e \in Level1}}
CalledCalls ==
  {CallT(c, <<a>>) :
     c \in {k \in Calls1 : Len(k.list) <= 1},
     a \in {NumT("2"), BinT("+", NumT("1"), NumT("2")), BinT("+", NumT("1"), IdT("x"))}}
Wrapped2 == {UnaryT(UnaryOperand(e)) : e \in Level1} \cup {ParenT(e) : e \in Level1}
Level2 == Binary2 \cup Calls2 \cup CalledCalls \cup Wrapped2

\* an arithmetic operator over a call that holds a Level1 argument
Level3 ==
  {BinT("+", NumT("2"), CallT(c, <<e>>)) :
     c \in {IdT("f"), AccessT(IdT("Math"), "sin")}, e \in Level1}

Expressions == Atoms \cup Level1 \cup Level2 \cup Level3

DecimalImport == ImportT(ImportClauseT(IdT("Decimal"), Nil), "decimal.js")
Imports ==
  {DecimalImport,
   ImportT(ImportClauseT(IdT("Decimal"), Nil), "big.js"),
   ImportT(ImportClauseT(IdT("Big"), Nil), "decimal.js"),
   ImportT(ImportClauseT(Nil, NamedImportsT("Decimal")), "decimal.js"),
   ImportT(Nil, "decimal.js")}

Programs ==
  {<<VarDeclT("v", e)>> : e \in Arithmetic(MaxOps) \cup Expressions}
    \cup {<<ExprStmtT(e)>> : e \in Expressions}
    \cup {<<VarDeclT("u", BinT("*", NumT("2"), NumT("1"))), VarDeclT("v", e)>> : e \in Level1}
    \cup {<<VarDeclT("u", BinT("*", NumT("2"), NumT("1"))), ExprStmtT(e)>> : e \in Level1}
    \cup {imports \o <<VarDeclT("v", BinT("+", NumT("1"), NumT("2")))>> :
            imports \in Lists(Imports, MaxImports)}

-----------------------------------------------------------------------------
(* The state machine: a file is parsed, then one operation is applied      *)

\* the expression of a statement: the initializer or the expression
StatementExpression(h, statement) ==
  IF h[statement].kind = "VariableDeclaration" THEN h[statement].right
  ELSE h[statement].left

NoResult ==
  [threw |-> FALSE, err |-> "", node |-> 0, at |-> 0, visited |-> {}, rewrote |-> {},
   writes |-> {}, value |-> Nil]

\* the result of a classifier or rewriter call
Classified(r) ==
  [threw |-> ~r.ok, err |-> r.err, node |-> r.r, at |-> 0, visited |-> {},
   rewrote |-> {}, writes |-> {}, value |-> Nil]

\* the result of an entry point
Transformed(o) ==
  [threw |-> o.threw, err |-> o.err, node |-> 0, at |-> o.at, visited |-> o.visited,
   rewrote |-> o.rewrote, writes |-> o.writes, value |-> o.value]

Init ==
  \E program \in Programs :
    LET parsed == createSourceFile(SourceFileT(program)) IN
    /\ heap = parsed.h
    /\ file = parsed.r
    /\ src = [h |-> parsed.h, file |-> parsed.r]
    /\ expr = StatementExpression(parsed.h, parsed.h[parsed.r].list[Len(program)])
    /\ pc = "parsed"
    /\ res = NoResult

EnsureFixedPoint ==
  /\ pc = "parsed"
  /\ LET r == ensureFixedPoint(heap, expr) IN
       heap' = r.h /\ res' = Classified(r)
  /\ pc' = "ensureFixedPoint"
  /\ UNCHANGED <<file, expr, src>>

RewriteBinaryExpression ==
  /\ pc = "parsed"
  /\ heap[expr].kind = "BinaryExpression"
  /\ LET r == rewriteBinaryExpression(heap, expr) IN
       heap' = r.h /\ res' = Classified(r)
  /\ pc' = "rewriteBinaryExpression"
  /\ UNCHANGED <<file, expr, src>>

RewriteCallExpression ==
  /\ pc = "parsed"
  /\ heap[expr].kind = "CallExpression"
  /\ LET r == rewriteCallExpression(heap, expr) IN
       heap' = r.h /\ res' = Classified(r)
  /\ pc' = "rewriteCallExpression"
  /\ UNCHANGED <<file, expr, src>>

\* the loader on a parsed file, and again on the tree it left
Loader ==
  /\ \/ pc = "parsed" /\ pc' = "loader"
     \/ pc = "loader" /\ ~res.threw /\ pc' = "loaderAgain"
  /\ LET o == loader(heap, file) IN
       heap' = o.h /\ file' = o.file /\ res' = Transformed(o)
  /\ UNCHANGED <<expr, src>>

\* the compiler host's getSourceFile on a parsed file
GetSourceFile ==
  /\ pc = "parsed"
  /\ LET o == getSourceFile(heap, file) IN
       heap' = o.h /\ file' = o.file /\ res' = Transformed(o)
  /\ pc' = "getSourceFile"
  /\ UNCHANGED <<expr, src>>

Next ==
  \/ EnsureFixedPoint
  \/ RewriteBinaryExpression
  \/ RewriteCallExpression
  \/ Loader
  \/ GetSourceFile

Spec == Init /\ [][Next]_vars

-----------------------------------------------------------------------------
(* What the properties below speak of                                      *)

NewT(callee, args) == Tree("NewExpression", "", callee, Nil, args)

\* the parsed expression, as a tree
ExprTree == printFile(src.h, expr)

\* the nodes of the parsed file
OriginalNodes == 1..Len(src.h)

\* an expression of numeric literals and the operators + - * / only, with
\* the parentheses its nesting is written with
RECURSIVE IsArithmeticTree(_)
IsArithmeticTree(t) ==
  \/ t.kind = "NumericLiteral"
  \/ t.kind = "ParenthesizedExpression" /\ IsArithmeticTree(t.left)
  \/ /\ t.kind = "BinaryExpression"
     /\ t.text \in {"+", "-", "*", "/"}
     /\ IsArithmeticTree(t.left)
     /\ IsArithmeticTree(t.right)

\* m: the Decimal method of an arithmetic operator
DecimalMethod(op) ==
  CASE op = "/" -> "div" [] op = "*" -> "times" [] op = "+" -> "plus" [] op = "-" -> "minus"

\* T: new Decimal(T(l)).m(op)(T(r)), level by level
RECURSIVE DecimalTree(_)
DecimalTree(t) ==
  IF t.kind = "NumericLiteral" THEN t
  ELSE IF t.kind = "ParenthesizedExpression" THEN DecimalTree(t.left)
  ELSE CallT(AccessT(NewT(IdT("Decimal"), <<DecimalTree(t.left)>>), DecimalMethod(t.text)),
             <<DecimalTree(t.right)>>)

\* the literals of the rewrite m of the arithmetic node n are n's own nodes
RECURSIVE SameLiterals(_, _)
SameLiterals(n, m) ==
  IF src.h[n].kind = "NumericLiteral" THEN m = n
  ELSE IF src.h[n].kind = "ParenthesizedExpression" THEN SameLiterals(src.h[n].left, m)
  ELSE /\ m \notin OriginalNodes
       /\ SameLiterals(src.h[n].left, heap[heap[heap[m].left].left].list[1])
       /\ SameLiterals(src.h[n].right, heap[m].list[1])

\* the nodes of the parsed file are as they were parsed
OriginalsUntouched == SubSeq(heap, 1, Len(src.h)) = src.h

-----------------------------------------------------------------------------
\* C1: on every expression of numeric literals and + - * / at any nesting,
\* such as (1 + 2) * 2, rewriteBinaryExpression succeeds and returns T(e):
\* each literal is the same literal node, and each arithmetic level is its
\* own new Decimal(T(l)).m(T(r)) with m the method of the operator.
C1_ArithmeticRewrite ==
  (pc = "rewriteBinaryExpression" /\ IsArithmeticTree(ExprTree))
    => /\ ~res.threw
       /\ printFile(heap, res.node) = DecimalTree(ExprTree)
       /\ SameLiterals(expr, res.node)
       /\ OriginalsUntouched

-----------------------------------------------------------------------------
\* a comparison: a binary node whose operator is not one of + - * /
IsComparison(n) ==
  src.h[n].kind = "BinaryExpression" /\ src.h[n].text \notin {"+", "-", "*", "/"}
IsUnary(n) == src.h[n].kind = "PrefixUnaryExpression"

\* the operands of the parsed expression are literals or identifiers
OverAtoms ==
  /\ ExprTree.left.kind \in {"NumericLiteral", "Identifier"}
  /\ ExprTree.right.kind \in {"none", "NumericLiteral", "Identifier"}

\* the nodes the walker called decimalifyChild on
VisitedNodes == {v.node : v \in res.visited}

\* C2 as stated: on every comparison and every unary expression e,
\* ensureFixedPoint(e) fails with the unsupported-node-kind error, while the
\* walk of a file whose last statement holds e raises no error and leaves
\* the tree as it was parsed.
C2_StrictFailsWalkerPasses ==
  /\ (pc = "ensureFixedPoint" /\ (IsComparison(expr) \/ IsUnary(expr)))
       => res.threw /\ res.err = src.h[expr].kind
  /\ (pc = "getSourceFile" /\ (IsComparison(expr) \/ IsUnary(expr)) /\ OverAtoms
        /\ Len(src.h[src.file].list) = 1)
       => ~res.threw /\ res.value = printFile(src.h, src.file)

\* C2 amended: ensureFixedPoint fails with the unsupported-node-kind error on
\* every unary expression, but on a comparison it returns the comparison node
\* itself, without an error and without a change. The walker never computes
\* a rewrite for a comparison or unary node, never fails at one and never
\* changes one; the walk of a file that holds only such an expression over
\* literals and identifiers raises no error and leaves the tree as parsed.
C2_UnaryFailsComparisonPasses ==
  /\ (pc = "ensureFixedPoint" /\ IsUnary(expr))
       => res.threw /\ res.err = "PrefixUnaryExpression"
  /\ (pc = "ensureFixedPoint" /\ IsComparison(expr))
       => ~res.threw /\ res.node = expr /\ heap = src.h
  /\ pc \in {"loader", "getSourceFile"}
       => \A n \in OriginalNodes :
            (IsComparison(n) \/ IsUnary(n))
              => res.at # n /\ n \notin res.rewrote /\ heap[n] = src.h[n]
  /\ (pc = "getSourceFile" /\ (IsComparison(expr) \/ IsUnary(expr)) /\ OverAtoms
        /\ Len(src.h[src.file].list) = 1)
       => ~res.threw /\ res.value = printFile(src.h, src.file)

\* the walk went through 1 < x, the initializer of a declaration, and the
\* strict classifier was given the same comparison
C2_Witness ==
  /\ ExprTree = BinT("<", NumT("1"), IdT("x"))
  /\ \/ pc = "getSourceFile" /\ expr \in VisitedNodes /\ ~res.threw
     \/ pc = "ensureFixedPoint" /\ res.node = expr

-----------------------------------------------------------------------------
\* the callee of the parsed call is the property access Math.sin, Math.cos
\* or Math.tan
IsMathTrigCall ==
  /\ ExprTree.left.kind = "PropertyAccessExpression"
  /\ ExprTree.left.left = IdT("Math")
  /\ ExprTree.left.right \in {IdT("sin"), IdT("cos"), IdT("tan")}

\* C3: rewriteCallExpression(c) returns a new call Decimal.<m>(...) holding
\* the very argument list of c exactly when the callee of c is Math.<m> with
\* m one of sin, cos, tan; for every other callee it returns c itself and
\* changes nothing.
C3_OnlyMathTrigRewritten ==
  pc = "rewriteCallExpression"
    => /\ ~res.threw
       /\ OriginalsUntouched
       /\ IF IsMathTrigCall
          THEN /\ res.node \notin OriginalNodes
               /\ heap[res.node].kind = "CallExpression"
               /\ printFile(heap, heap[res.node].left)
                    = AccessT(IdT("Decimal"), ExprTree.left.right.text)
               /\ heap[res.node].list = src.h[expr].list
          ELSE res.node = expr /\ heap = src.h

-----------------------------------------------------------------------------
\* the import declaration `statement` binds the local name Decimal, as its
\* default import or as a named import
BindsDecimal(h, statement) ==
  /\ h[statement].kind = "ImportDeclaration"
  /\ h[statement].left # 0
  /\ \/ /\ h[h[statement].left].left # 0
        /\ h[h[h[statement].left].left].text = "Decimal"
     \/ /\ h[h[statement].left].right # 0
        /\ \E i \in 1..Len(h[h[h[statement].left].right].list) :
             h[h[h[h[h[statement].left].right].list[i]].left].text = "Decimal"

DecimalBindings(h, sourceFile) ==
  {i \in 1..Len(h[sourceFile].list) : BindsDecimal(h, h[sourceFile].list[i])}

\* C4: after the import-ensuring step of the loader the file holds exactly
\* one import that binds the local name Decimal, and the step applied to its
\* own result changes nothing.
C4_ExactlyOneDecimalImport ==
  pc = "loader"
    => /\ Cardinality(DecimalBindings(heap, file)) = 1
       /\ ensureImport(heap, file) = [h |-> heap, r |-> file]

-----------------------------------------------------------------------------
\* C5: the walk writes a rewrite only into the initializer of a variable
\* declaration or into the argument list of a call whose only argument is
\* the rewritten node, and after the walk every call of the parsed program
\* has the callee and the number of arguments it had.
C5_WritesOnlyOwnSlot ==
  pc \in {"loader", "getSourceFile"}
    => /\ \A w \in res.writes :
            \/ w.slot = "initializer" /\ w.held = <<w.node>>
            \/ w.slot = "arguments" /\ w.held = <<w.node>>
       /\ \A n \in OriginalNodes :
            src.h[n].kind = "CallExpression"
              => /\ heap[n].left = src.h[n].left
                 /\ Len(heap[n].list) = Len(src.h[n].list)

-----------------------------------------------------------------------------
\* C6: on every parsed file the loader and the compiler host's getSourceFile
\* produce the same tree, the Decimal import included (and fail on the same
\* files).
C6_LoaderEqualsGetSourceFile ==
  pc = "loader"
    => /\ res.threw = getSourceFile(src.h, src.file).threw
       /\ res.value = getSourceFile(src.h, src.file).value

-----------------------------------------------------------------------------
\* the rewrites the walker wrote into the tree
AttachedRewrites == {w.value : w \in res.writes}

\* C8: a rewrite that is not attached is discarded and the walk goes on in
\* the original node: the parent the walker hands to decimalifyChild, and
\* the parent a rewrite is written into, is always a node the walker was
\* called on or a rewrite it attached, never a discarded rewrite.
C8_DiscardedRewriteNotWalked ==
  pc \in {"loader", "getSourceFile"}
    => /\ \A v \in res.visited :
            v.parent = 0 \/ v.parent \in VisitedNodes \/ v.parent \in AttachedRewrites
       /\ \A w \in res.writes :
            w.parent \in VisitedNodes \/ w.parent \in AttachedRewrites

-----------------------------------------------------------------------------
\* the strict classifier fails on the parsed node n: n is not a literal, a
\* binary or a call node, or n is arithmetic over such an operand
RECURSIVE StrictFails(_)
StrictFails(n) ==
  \/ src.h[n].kind \notin {"NumericLiteral", "BinaryExpression", "CallExpression"}
  \/ /\ src.h[n].kind = "BinaryExpression"
     /\ src.h[n].text \in {"+", "-", "*", "/"}
     /\ (StrictFails(src.h[n].left) \/ StrictFails(src.h[n].right))

\* an arithmetic binary node of the parsed file on which the classifier fails
IsFaultyArithmetic(n) ==
  /\ n \in OriginalNodes
  /\ src.h[n].kind = "BinaryExpression"
  /\ StrictFails(n)

\* C7: when the walk comes to an arithmetic binary node on whose operands
\* the strict classifier fails, the entry point throws the classifier's
\* error and hands back no tree or text, also when rewrites of earlier nodes
\* are already attached; it throws for no other reason, so never at a binary
\* node with another operator.
C7_FailurePropagates ==
  pc \in {"loader", "getSourceFile"}
    => /\ (\E v \in res.visited : IsFaultyArithmetic(v.node)) => res.threw
       /\ res.threw
            => /\ res.value = Nil
               /\ IsFaultyArithmetic(res.at)
               /\ res.err \notin {"", "NumericLiteral", "BinaryExpression", "CallExpression"}
       /\ ~res.threw => res.value.kind = "SourceFile"

\* the loader threw at the second statement, after the rewrite of the first
\* statement's initializer was attached
C7_Witness ==
  /\ pc = "loader"
  /\ res.threw
  /\ res.value = Nil
  /\ \E w \in res.writes : w.slot = "initializer" /\ heap[w.parent].right = w.value

-----------------------------------------------------------------------------
\* new Decimal(l).<op>(r), a generated arithmetic expression
IsDecimalMethodCall(t) ==
  /\ t.kind = "CallExpression"
  /\ t.left.kind = "PropertyAccessExpression"
  /\ t.left.right.text \in {"div", "times", "plus", "minus"}
  /\ t.left.left.kind = "NewExpression"
  /\ t.left.left.left = IdT("Decimal")
  /\ Len(t.left.left.list) = 1
  /\ Len(t.list) = 1

\* Decimal.<m>(..), a generated call of a static method
IsDecimalStaticCall(t) ==
  /\ t.kind = "CallExpression"
  /\ t.left.kind = "PropertyAccessExpression"
  /\ t.left.left = IdT("Decimal")

\* Math.<m>(..) with m one of sin, cos, tan: a call yet to be rewritten
IsMathTrig(t) ==
  /\ t.kind = "CallExpression"
  /\ t.left.kind = "PropertyAccessExpression"
  /\ t.left.left = IdT("Math")
  /\ t.left.right \in {IdT("sin"), IdT("cos"), IdT("tan")}

IsArithmetic(t) == t.kind = "BinaryExpression" /\ t.text \in {"+", "-", "*", "/"}

\* a fixed-point node as the claim has it: a literal or a Decimal expression
\* over fixed-point operands
RECURSIVE IsFixedPoint(_)
IsFixedPoint(t) ==
  \/ t.kind = "NumericLiteral"
  \/ IsDecimalStaticCall(t)
  \/ /\ IsDecimalMethodCall(t)
     /\ IsFixedPoint(t.left.left.list[1])
     /\ IsFixedPoint(t.list[1])

\* what the classifier does return: a literal, a Decimal expression over
\* operands of this kind, or a binary or call node that no rewriter matches
RECURSIVE IsClassified(_)
IsClassified(t) ==
  \/ t.kind = "NumericLiteral"
  \/ IsDecimalStaticCall(t)
  \/ /\ IsDecimalMethodCall(t)
     /\ IsClassified(t.left.left.list[1])
     /\ IsClassified(t.list[1])
  \/ t.kind = "BinaryExpression" /\ ~IsArithmetic(t)
  \/ t.kind = "CallExpression" /\ ~IsMathTrig(t) /\ ~IsDecimalMethodCall(t)

\* C9 as stated: ensureFixedPoint(n) fails or returns a fixed-point node, a
\* numeric literal or a Decimal expression, whose operands are fixed-point
\* nodes too; it never returns an unrewritten binary or call node.
C9_ReturnsFixedPoint ==
  (pc = "ensureFixedPoint" /\ ~res.threw) => IsFixedPoint(printFile(heap, res.node))

\* C9 amended: ensureFixedPoint(n) fails, or returns n itself when n is a
\* numeric literal, a binary node with an operator other than + - * / or a
\* call that rewriteCallExpression leaves alone, or returns a newly generated
\* Decimal expression: new Decimal(l).<op>(r) when n is arithmetic,
\* Decimal.<m>(..) when n is a call Math.<m>(..) that rewriteCallExpression
\* rewrites, as it does every Math.sin, Math.cos and Math.tan. The operands
\* placed inside a generated arithmetic expression are of these kinds, so
\* never an unrewritten arithmetic node or Math.sin/cos/tan call.
C9_ReturnsClassified ==
  (pc = "ensureFixedPoint" /\ ~res.threw)
    => /\ IsClassified(printFile(heap, res.node))
       /\ OriginalsUntouched
       /\ IF IsArithmetic(ExprTree)
            THEN res.node \notin OriginalNodes
                   /\ IsDecimalMethodCall(printFile(heap, res.node))
          ELSE IF IsMathTrig(ExprTree)
            THEN res.node \notin OriginalNodes
                   /\ IsDecimalStaticCall(printFile(heap, res.node))
          ELSE \/ res.node = expr
               \/ /\ ExprTree.kind = "CallExpression"
                  /\ ExprTree.left.kind = "PropertyAccessExpression"
                  /\ ExprTree.left.left = IdT("Math")
                  /\ res.node \notin OriginalNodes
                  /\ IsDecimalStaticCall(printFile(heap, res.node))

\* 2 + f(..) became new Decimal(2).plus(f(..)): the call f(..) is placed as
\* it was
C9_Witness ==
  /\ pc = "ensureFixedPoint"
  /\ ~res.threw
  /\ res.node \notin OriginalNodes
  /\ heap[res.node].list = <<src.h[expr].right>>
  /\ src.h[src.h[expr].right].kind = "CallExpression"
  /\ printFile(src.h, src.h[src.h[expr].right].left) = IdT("f")

-----------------------------------------------------------------------------
\* C10: on every program the loader succeeds on, the walk never computes a
\* rewrite for a node the transform generated, and the loader run again on
\* the tree it left succeeds, rewrites no generated node and leaves a tree of
\* the same structure: no second import, no second wrapping.
C10_Idempotent ==
  /\ pc = "loader" => res.rewrote \subseteq OriginalNodes
  /\ pc = "loaderAgain"
       => /\ ~res.threw
          /\ res.rewrote \subseteq OriginalNodes
          /\ res.value = loader(src.h, src.file).value
          /\ Len(heap[file].list) = Len(src.h[src.file].list)
               + (IF sourceFileHasDecimalJS(src.h, src.file) THEN 0 ELSE 1)

\* the second run left `import Decimal from 'decimal.js'` and the declaration
\* whose initializer the first run generated
C10_Witness ==
  /\ pc = "loaderAgain"
  /\ Len(heap[file].list) = 2
  /\ heap[heap[file].list[1]].kind = "ImportDeclaration"
  /\ heap[heap[file].list[2]].kind = "VariableDeclaration"
  /\ heap[heap[file].list[2]].right \notin OriginalNodes
  /\ res.value = loader(src.h, src.file).value

====
